---- MODULE Spec2Model ----
(***************************************************************************)
(* Poly-Alpha-Bot: the BTC scan pipeline (Scanner.run_scan, the parser,    *)
(* the strategies) as state machines.                                      *)
(*                                                                         *)
(* Units.  A probability or price p in [0,1] is held as the integer        *)
(* p * 10000 (basis points); an edge likewise.  A Python value that may be *)
(* None or of the wrong type is held as a tagged record (NoneV, Num(v),    *)
(* StrV).  Texts are TLA+ strings; every text test below is computed on    *)
(* the characters, as the Python code computes it.                         *)
(***************************************************************************)
EXTENDS Integers, Sequences, FiniteSets, TLC

(***************************************************************************)
(* Python values                                                           *)
(***************************************************************************)
NoneV == [k |-> "None"]
StrV == [k |-> "str"]
Num(v) == [k |-> "float", v |-> v]
IsNum(x) == x.k = "float"

\* a text attribute that is None (the models.Market default for url / title)
NoText == "<None>"
IsStr(x) == x # NoText

Max(a, b) == IF a >= b THEN a ELSE b
Min(a, b) == IF a <= b THEN a ELSE b
Abs(a) == IF a >= 0 THEN a ELSE 0 - a

(***************************************************************************)
(* str methods used by the classifiers                                     *)
(***************************************************************************)
UpperChars == <<"A","B","C","D","E","F","G","H","I","J","K","L","M",
                "N","O","P","Q","R","S","T","U","V","W","X","Y","Z">>
LowerChars == <<"a","b","c","d","e","f","g","h","i","j","k","l","m",
                "n","o","p","q","r","s","t","u","v","w","x","y","z">>
Digits == <<"0","1","2","3","4","5","6","7","8","9">>

CharAt(s, i) == SubSeq(s, i, i)

LowerChar(c) ==
    IF \E j \in 1..26 : UpperChars[j] = c
    THEN LowerChars[CHOOSE j \in 1..26 : UpperChars[j] = c]
    ELSE c

\* s.lower()
Lower(s) ==
    LET F[i \in 0..Len(s)] == IF i = 0 THEN "" ELSE F[i - 1] \o LowerChar(CharAt(s, i))
    IN  F[Len(s)]

\* needle in hay
Contains(hay, needle) ==
    \E i \in 1..(Len(hay) - Len(needle) + 1) :
        SubSeq(hay, i, i + Len(needle) - 1) = needle

\* any(k in hay for k in kws)
ContainsAny(hay, kws) == \E j \in 1..Len(kws) : Contains(hay, kws[j])

\* " ".join(parts)
Join(parts) ==
    LET F[i \in 0..Len(parts)] ==
            IF i = 0 THEN "" ELSE IF i = 1 THEN parts[1] ELSE F[i - 1] \o " " \o parts[i]
    IN  F[Len(parts)]

\* s.replace(",", "")
RemoveCommas(s) ==
    LET F[i \in 0..Len(s)] ==
            IF i = 0 THEN ""
            ELSE F[i - 1] \o (IF CharAt(s, i) = "," THEN "" ELSE CharAt(s, i))
    IN  F[Len(s)]

IsDigit(c) == \E j \in 1..10 : Digits[j] = c
DigitVal(c) == (CHOOSE j \in 1..10 : Digits[j] = c) - 1

AllDigits(s, i, n) == i + n - 1 <= Len(s) /\ \A j \in i..(i + n - 1) : IsDigit(CharAt(s, j))

\* re.search(r"\d{4,7}", s): start of the leftmost match, 0 when there is none
DigitRunStart(s) ==
    IF \E i \in 1..Len(s) : AllDigits(s, i, 4)
    THEN CHOOSE i \in 1..Len(s) :
            AllDigits(s, i, 4) /\ \A j \in 1..(i - 1) : ~AllDigits(s, j, 4)
    ELSE 0

\* the greedy length (4..7) of the match that starts at i
DigitRunLen(s, i) == CHOOSE n \in 4..7 : AllDigits(s, i, n) /\ (n = 7 \/ ~AllDigits(s, i, n + 1))

\* the number written by the n digits of s that start at i
ToNumber(s, i, n) ==
    LET F[k \in 0..n] == IF k = 0 THEN 0 ELSE F[k - 1] * 10 + DigitVal(CharAt(s, i + k - 1))
    IN  F[n]

\* float(m.group(1)) of re.search(r"(\d{4,7})", title.replace(",", "")), NoneV when no match
ExtractStrike(title) ==
    LET cleaned == RemoveCommas(title)
        i == DigitRunStart(cleaned)
    IN  IF i = 0 THEN NoneV ELSE Num(ToNumber(cleaned, i, DigitRunLen(cleaned, i)))

(***************************************************************************)
(* Configuration (utils/config.py defaults)                                *)
(***************************************************************************)
min_edge_bp == 150
max_resolution_days == 1

(***************************************************************************)
(* Market objects.  The strategies are duck-typed (market: Any): a market  *)
(* carries question / title / url / group texts (no class defines the      *)
(* markets_group the filter asks for: getattr gives ""), yes_price and     *)
(* no_price attributes, an outcomes list (Outcome.price, a float, in        *)
(* outcomes; Outcome.name in labels, "Yes" then "No" unless said) and an   *)
(* end_time, held here as whole days from now (negative: already past).    *)
(***************************************************************************)
Mkt(id, q, t, u, yes, no, outs, days) ==
    [id |-> id, question |-> q, title |-> t, url |-> u, group |-> "", markets_group |-> "",
     yes_price |-> yes, no_price |-> no, outcomes |-> outs,
     labels |-> SubSeq(<<"Yes", "No">>, 1, Len(outs)), end_days |-> days]

Catalog ==
    { Mkt("eth",    "Will Ethereum reach 5000?", NoText, "https://polymarket.com/event/eth-5000",
                    Num(3000), Num(7000), <<3000, 7000>>, 0),
      Mkt("updn",   "Bitcoin Up or Down today?", NoText, "https://polymarket.com/event/btc-updown-15m",
                    Num(3000), Num(7000), <<3000, 7000>>, 0),
      Mkt("updn30", "Bitcoin up or down this month?", "", "https://polymarket.com/event/bitcoin-up-or-down",
                    Num(4900), Num(5100), <<4900, 5100>>, 30),
      Mkt("above",  "Will Bitcoin be above 95,000?", NoText, "", Num(1000), Num(9000), <<1000, 9000>>, 30),
      Mkt("below",  "BTC below 80000 by year end?", NoText, "", Num(6000), Num(4000), <<6000, 4000>>, 0),
      Mkt("over",   "Will Bitcoin be over 100000?", NoText, "", Num(4000), Num(6000), <<4000, 6000>>, 0),
      Mkt("zero",   "Bitcoin up or down above 0000?", NoText, "", Num(3000), Num(7000), <<3000, 7000>>, 0),
      Mkt("beat",   "BTC price to beat", "BTC up 90000 price to beat", "", Num(2000), Num(8000), <<2000, 8000>>, 0),
      Mkt("beatx",  "BTC up 90000 price to beat", NoText, NoText, StrV, Num(8000), <<>>, 0),
      Mkt("nopx",   "Bitcoin up or down at 8am ET?", NoText, "", NoneV, Num(7000), <<7000>>, 0),
      Mkt("hidden", "Up or down today?", "Bitcoin daily", "https://polymarket.com/event/btc-updown-4h",
                    Num(3000), Num(7000), <<3000, 7000>>, 0),
      Mkt("etf",    "Will a Bitcoin ETF be approved?", NoText, "", Num(5000), Num(5000), <<5000, 5000>>, 30),
      Mkt("macro",  "Will a Bitcoin reserve pass?", NoText, "", Num(2000), Num(8000), <<2000, 8000>>, 0),
      Mkt("one",    "Will a Bitcoin ETF launch?", NoText, "", Num(5000), NoneV, <<5000>>, 0),
      Mkt("reach",  "Will Bitcoin reach 120000?", NoText, "", Num(3000), Num(7000), <<3000, 7000>>, 0),
      [Mkt("grp",   "Up or down this week?", NoText, "", Num(3000), Num(7000), <<3000, 7000>>, 0)
          EXCEPT !.group = "Bitcoin weekly"],
      Mkt("under",  "Will Bitcoin be under 90000?", NoText, "", Num(4000), Num(6000), <<4000, 6000>>, 0),
      Mkt("nodir",  "Will BTC be above 100000?", "Bitcoin 100000 by Friday", "",
                    Num(4000), Num(6000), <<4000, 6000>>, 0),
      [Mkt("macro_rev", "Will a Bitcoin reserve pass?", NoText, "", Num(2000), Num(8000), <<8000, 2000>>, 0)
          EXCEPT !.labels = <<"No", "Yes">>],
      [Mkt("updn_rev", "Bitcoin Up or Down today?", NoText, "https://polymarket.com/event/btc-updown-15m",
                    Num(3000), Num(7000), <<7000, 3000>>, 0)
          EXCEPT !.labels = <<"No", "Yes">>] }

\* the reference spot prices a scan may see (run_scan goes on only when spot > 0)
Spots == {90000, 100000}

\* the spot prices score() may be called with directly
ScoreSpots == {0, 120000} \cup Spots

(***************************************************************************)
(* What a call of score() gives: None, an exception, or an opportunity.    *)
(* An opportunity keeps the fields of the Python object; "keys" are the    *)
(* keys of a dict result, "attrs" the attributes getattr() can find.       *)
(***************************************************************************)
Returned(list) == [r |-> "ok", results |-> list]
Nothing == [r |-> "None"]
Raised(e) == [r |-> "raise", exc |-> e]
Produced(o) == [r |-> "opp", opp |-> o]

Opp(strategy, m, keys, attrs, edge, yes, no, fair, side, direction, strike) ==
    [strategy |-> strategy, market |-> m.id, keys |-> keys, attrs |-> attrs,
     edge |-> edge, yes_price |-> yes, no_price |-> no,
     fair |-> fair, side |-> side, direction |-> direction, strike |-> strike]

\* url / title / question, each only if isinstance(.., str)
TextParts(m) == SelectSeq(<<m.url, m.title, m.question>>, IsStr)

\* getattr(market, "title", None) or getattr(market, "question", None) or ""
TitleOf(m) == IF IsStr(m.title) /\ m.title # "" THEN m.title ELSE m.question

(***************************************************************************)
(* BTCIntraday                                                             *)
(***************************************************************************)
\* ASCII texts only: the typographic-apostrophe marker of the source cannot occur
intraday_markers == <<"up or down", "up/down", "price to beat", "ends today", "today's price">>

is_intraday(m) ==
    LET text == Lower(Join(TextParts(m)))
    IN  /\ TextParts(m) # <<>>
        /\ Contains(text, "bitcoin") \/ Contains(text, "btc")
        /\ ContainsAny(text, intraday_markers)

IntradayDirection(title_lower) ==
    IF Contains(title_lower, "up") /\ ~Contains(title_lower, "down") THEN "up"
    ELSE IF Contains(title_lower, "down") /\ ~Contains(title_lower, "up") THEN "down"
    ELSE "unknown"

IntradayDict(m, direction, edge) ==
    Produced(Opp("btc-intraday", m,
                 {"title", "url", "direction", "yes_price", "no_price", "edge", "market"}, {},
                 edge, m.yes_price, m.no_price, NoneV, "absent", direction, NoneV))

\* IntradayScore with the price check weakened to "both prices missing"
IntradayScoreBothMissing(m, spot) ==
    LET title == TitleOf(m)
        direction == IntradayDirection(Lower(title))
        strike == ExtractStrike(title)
        beyond == /\ IsNum(strike)
                  /\ \/ direction = "up" /\ spot > strike.v
                     \/ direction = "down" /\ spot < strike.v
    IN  IF ~is_intraday(m) THEN Nothing
        ELSE IF m.yes_price = NoneV /\ m.no_price = NoneV THEN Nothing
        ELSE IF ~beyond THEN IntradayDict(m, direction, 0)
        ELSE IF ~IsNum(m.yes_price) THEN Raised("TypeError")
        ELSE IntradayDict(m, direction, 6000 - m.yes_price.v)

\* BTCIntraday.score
IntradayScore(m, spot) ==
    LET title == TitleOf(m)
        direction == IntradayDirection(Lower(title))
        strike == ExtractStrike(title)
        beyond == /\ IsNum(strike)
                  /\ \/ direction = "up" /\ spot > strike.v
                     \/ direction = "down" /\ spot < strike.v
    IN  IF ~is_intraday(m) THEN Nothing
        ELSE IF m.yes_price = NoneV \/ m.no_price = NoneV THEN Nothing
        ELSE IF ~beyond THEN IntradayDict(m, direction, 0)
        ELSE IF ~IsNum(m.yes_price) THEN Raised("TypeError")
        ELSE IntradayDict(m, direction, 6000 - m.yes_price.v)

(***************************************************************************)
(* BTCPriceTargets                                                         *)
(***************************************************************************)
target_keywords == <<"above", "below", "over", "under", "at least", "at most",
                     "greater than", "less than">>

is_btc_price_target(m) ==
    LET text == Lower(Join(TextParts(m)))
    IN  /\ text # ""
        /\ Contains(text, "bitcoin") \/ Contains(text, "btc")
        /\ ContainsAny(text, target_keywords)
        /\ DigitRunStart(RemoveCommas(text)) # 0

TargetDirection(tl) ==
    IF ContainsAny(tl, <<"above", "over", "greater than", "at least">>) THEN "above"
    ELSE IF ContainsAny(tl, <<"below", "under", "less than", "at most">>) THEN "below"
    ELSE "unknown"

\* true_prob without its lower bounds 0.55 and 0.05
TrueProbUnbounded(direction, spot, strike) ==
    LET twice_dist == 0 - ((0 - 20000 * Abs(spot - strike)) \div strike)
        near == 9000 - twice_dist
        far == 5000 - twice_dist
    IN  IF direction = "above" THEN (IF spot > strike THEN near ELSE far)
        ELSE IF direction = "below" THEN (IF spot < strike THEN near ELSE far)
        ELSE 0

\* true_prob, rounded down to the basis point; dist = |spot - strike| / strike
TrueProb(direction, spot, strike) ==
    LET twice_dist == 0 - ((0 - 20000 * Abs(spot - strike)) \div strike)
        near == Max(5500, 9000 - twice_dist)
        far == Max(500, 5000 - twice_dist)
    IN  IF direction = "above" THEN (IF spot > strike THEN near ELSE far)
        ELSE IF direction = "below" THEN (IF spot < strike THEN near ELSE far)
        ELSE 0

TargetsScore(m, spot) ==
    LET title == TitleOf(m)
        strike == ExtractStrike(title)
        direction == TargetDirection(Lower(title))
        true_prob == TrueProb(direction, spot, strike.v)
    IN  IF ~is_btc_price_target(m) THEN Nothing
        ELSE IF m.yes_price = NoneV \/ m.no_price = NoneV THEN Nothing
        ELSE IF ~IsNum(strike) THEN Nothing
        ELSE IF strike.v = 0 THEN Raised("ZeroDivisionError")
        ELSE IF ~IsNum(m.yes_price) THEN Raised("TypeError")
        ELSE Produced(Opp("btc-price-targets", m,
                          {"title", "url", "direction", "yes_price", "no_price", "strike",
                           "btc_price", "true_prob", "edge", "market"}, {},
                          true_prob - m.yes_price.v, m.yes_price, m.no_price,
                          Num(true_prob), "absent",
                          direction, strike))

(***************************************************************************)
(* BTCBase / BTCMacro                                                      *)
(***************************************************************************)
\* max((end_time - now).total_seconds() / 86400.0, 0.0)
DaysToExpiry(m) == Max(m.end_days, 0)

\* market.question.lower(), market.url.lower(): a url that is None raises
is_btc_market(m) ==
    \/ Contains(Lower(m.question), "bitcoin")
    \/ Contains(Lower(m.question), "btc")
    \/ Contains(Lower(m.url), "btc-")

macro_excluded == <<"reach", "above", "below", "dip", "up or down", "up/down">>

Side(edge_bp) == IF edge_bp > 0 THEN "YES" ELSE "NO"

ScoredAttrs == {"market", "edge_bp", "side", "fair_prob", "yes_price", "no_price"}

MacroScore(m) ==
    LET yes == m.outcomes[1]
        no == m.outcomes[2]
        fair == 5000
        edge_bp == fair - yes
    IN  IF ~IsStr(m.url) THEN Raised("AttributeError")
        ELSE IF ~is_btc_market(m) THEN Nothing
        ELSE IF ContainsAny(Lower(m.question), macro_excluded) THEN Nothing
        ELSE IF Len(m.outcomes) < 2 THEN Nothing
        ELSE Produced(Opp("macro", m, {}, ScoredAttrs \cup {"type", "meta"},
                          edge_bp, Num(yes), Num(no), Num(fair), Side(edge_bp),
                          "absent", NoneV))

(***************************************************************************)
(* BTCUpDownStrategy                                                       *)
(***************************************************************************)
updown_patterns == <<"btc-updown", "btc updown", "btc up/down", "bitcoin up or down",
                     "bitcoin-up-or-down", "up or down">>

is_intraday_btc_updown(m) ==
    LET q == Lower(m.question)
        u == Lower(m.url)
    IN  /\ Contains(q, "bitcoin") \/ Contains(q, "btc") \/ Contains(u, "btc-")
        /\ \E j \in 1..Len(updown_patterns) :
              Contains(q, updown_patterns[j]) \/ Contains(u, updown_patterns[j])

estimate_fair_prob(m) == 5000

score_market(m) ==
    LET yes_p == m.outcomes[1]
        no_p == m.outcomes[2]
        fair == estimate_fair_prob(m)
        edge_bp == fair - yes_p
    IN  IF ~IsStr(m.url) THEN Raised("AttributeError")
        ELSE IF ~is_intraday_btc_updown(m) THEN Nothing
        ELSE IF DaysToExpiry(m) > max_resolution_days THEN Nothing
        ELSE IF Len(m.outcomes) < 2 THEN Nothing
        ELSE Produced(Opp("btc-updown", m, {}, ScoredAttrs,
                          edge_bp, Num(yes_p), Num(no_p), Num(fair), Side(edge_bp),
                          "absent", NoneV))

(***************************************************************************)
(* BaseStrategy.score_many and the Scanner                                 *)
(***************************************************************************)
\* Scanner.__init__: the registered strategies, by self.name (the class name)
strats == <<"BTCIntraday", "BTCPriceTargets">>

\* strat.score(m, spot)
StrategyScore(strat, m, spot) ==
    IF strat = "BTCIntraday" THEN IntradayScore(m, spot) ELSE TargetsScore(m, spot)

\* Scanner._filter_btc_markets, the test of one market
FilterKeeps(m) ==
    LET haystack == Lower(m.question) \o " " \o Lower(m.markets_group)
    IN  Contains(haystack, "btc") \/ Contains(haystack, "bitcoin")

(***************************************************************************)
(* The functions above are pure and the markets immutable: each is         *)
(* evaluated once per catalogue market and looked up afterwards.           *)
(***************************************************************************)
MarketIds == {m.id : m \in Catalog}

MarketById(id) == CHOOSE m \in Catalog : m.id = id

RowOfId ==
    [id \in MarketIds |->
        [keep |-> FilterKeeps(MarketById(id)),
         intraday |-> is_intraday(MarketById(id)),
         target |-> is_btc_price_target(MarketById(id)),
         strike |-> ExtractStrike(TitleOf(MarketById(id))),
         macro |-> MacroScore(MarketById(id)),
         updown |-> score_market(MarketById(id))]]

ScoreOf ==
    [key \in {<<s, id, p>> : s \in {"BTCIntraday", "BTCPriceTargets"}, id \in MarketIds, p \in ScoreSpots} |->
        StrategyScore(key[1], MarketById(key[2]), key[3])]

RowOf(m) == RowOfId[m.id]

Score(strat, m, spot) == ScoreOf[<<strat, m.id, spot>>]

Opps(outcomes) == [j \in 1..Len(outcomes) |-> outcomes[j].opp]

\* score_many without the handler around score(): the first exception leaves the loop
score_many_unguarded(strat, ms, spot) ==
    LET scored == [j \in 1..Len(ms) |-> Score(strat, ms[j], spot)]
        IsOpp(sc) == sc.r = "opp"
    IN  IF \E j \in 1..Len(ms) : scored[j].r = "raise"
        THEN Raised("Exception")
        ELSE [r |-> "ok", results |-> Opps(SelectSeq(scored, IsOpp)), failed |-> {}]

\* BaseStrategy.score_many: one try/except per market
score_many(strat, ms, spot) ==
    LET scored == [j \in 1..Len(ms) |-> Score(strat, ms[j], spot)]
        IsOpp(sc) == sc.r = "opp"
    IN  [r |-> "ok",
         results |-> Opps(SelectSeq(scored, IsOpp)),
         failed |-> {<<strat, ms[j].id>> : j \in {k \in 1..Len(ms) : scored[k].r = "raise"}}]

\* a filter that lets every market through
FilterBtcMarketsAll(ms) == ms

\* Scanner._filter_btc_markets
FilterBtcMarkets(ms) ==
    LET Keep(m) == RowOf(m).keep
    IN  SelectSeq(ms, Keep)

\* list.sort(key=.., reverse=True): stable, descending.  The element at i goes
\* behind every element of greater key and every earlier element of equal key.
SortDesc(seq, keys) ==
    LET Rank(i) ==
            1 + Cardinality({j \in 1..Len(seq) :
                    \/ keys[j] > keys[i]
                    \/ keys[j] = keys[i] /\ j < i})
    IN  [r \in 1..Len(seq) |-> seq[CHOOSE i \in 1..Len(seq) : Rank(i) = r]]

\* getattr(o, "edge", 0.0)
GetattrEdge(o) == IF "edge" \in o.attrs THEN o.edge ELSE 0

AbsEdge(o) == Abs(o.edge)

\* BTCUpDownStrategy.find_opportunities
find_opportunities(ms) ==
    LET scored == [j \in 1..Len(ms) |-> RowOf(ms[j]).updown]
        Keep(sc) == sc.r = "opp" /\ ~(Abs(sc.opp.edge) < min_edge_bp)
    IN  IF \E j \in 1..Len(ms) : scored[j].r = "raise"
        THEN Raised("AttributeError")
        ELSE LET opps == Opps(SelectSeq(scored, Keep))
             IN  Returned(SortDesc(opps, [i \in 1..Len(opps) |-> AbsEdge(opps[i])]))

(***************************************************************************)
(* The scoring stage: the operations applied to a loaded batch of markets  *)
(***************************************************************************)
MaxMarkets == 2

\* market ids are unique within one scan cycle; a batch may be empty
Batches ==
    {b \in UNION {[1..n -> Catalog] : n \in 0..MaxMarkets} :
        \A i, j \in 1..Len(b) : i # j => b[i].id # b[j].id}

VARIABLES pc, feed, markets, btc_price, btc_markets, si, all_opps, calls, failures, result

vars == <<pc, feed, markets, btc_price, btc_markets, si, all_opps, calls, failures, result>>

NoResult == [r |-> "pending"]

\* the scoring stage starts from a batch that is already loaded
NoFeed == [loaded |-> TRUE]

ScoringInit ==
    /\ pc = "loaded"
    /\ feed = NoFeed
    /\ markets \in Batches
    /\ btc_price \in Spots
    /\ btc_markets = <<>>
    /\ si = 1
    /\ all_opps = <<>>
    /\ calls = {}
    /\ failures = {}
    /\ result = NoResult

\* run_scan, lines 61-78: filter, return [] when nothing is left
RunScanFilter ==
    /\ pc = "loaded"
    /\ btc_markets' = FilterBtcMarkets(markets)
    /\ IF btc_markets' = <<>>
       THEN pc' = "returned" /\ result' = Returned(<<>>)
       ELSE pc' = "strategies" /\ result' = result
    /\ UNCHANGED <<feed, markets, btc_price, si, all_opps, calls, failures>>

\* run_scan, lines 82-96: one pass of the loop over self.strats
RunStrategy ==
    /\ pc = "strategies"
    /\ si <= Len(strats)
    /\ LET out == score_many(strats[si], btc_markets, btc_price)
       IN  /\ calls' = calls \cup {<<strats[si], btc_markets[j].id>> : j \in 1..Len(btc_markets)}
           /\ IF out.r = "ok"
              THEN /\ all_opps' = all_opps \o out.results
                   /\ failures' = failures \cup out.failed
              ELSE /\ all_opps' = all_opps
                   /\ failures' = failures \cup {<<strats[si], "*">>}
    /\ si' = si + 1
    /\ UNCHANGED <<pc, feed, markets, btc_price, btc_markets, result>>

\* run_scan, lines 98-101: sort and return
RunScanReturn ==
    /\ pc = "strategies"
    /\ si > Len(strats)
    /\ result' = Returned(SortDesc(all_opps, [i \in 1..Len(all_opps) |-> GetattrEdge(all_opps[i])]))
    /\ pc' = "returned"
    /\ UNCHANGED <<feed, markets, btc_price, btc_markets, si, all_opps, calls, failures>>

\* BTCMacro.score on one market of the batch
CallMacroScore ==
    /\ pc = "loaded"
    /\ \E j \in 1..Len(markets) :
          /\ result' = RowOf(markets[j]).macro
          /\ si' = j
    /\ pc' = "macro_returned"
    /\ UNCHANGED <<feed, markets, btc_price, btc_markets, all_opps, calls, failures>>

\* BTCUpDownStrategy.find_opportunities on the batch
CallFindOpportunities ==
    /\ pc = "loaded"
    /\ result' = find_opportunities(markets)
    /\ pc' = "updown_returned"
    /\ UNCHANGED <<feed, markets, btc_price, btc_markets, si, all_opps, calls, failures>>

\* BTCPriceTargets.score on one market of the batch, at any spot price
CallTargetsScore ==
    /\ pc = "loaded"
    /\ \E j \in 1..Len(markets), spot \in ScoreSpots :
          /\ result' = Score("BTCPriceTargets", markets[j], spot)
          /\ si' = j
          /\ btc_price' = spot
    /\ pc' = "targets_returned"
    /\ UNCHANGED <<feed, markets, btc_markets, all_opps, calls, failures>>

ScoringNext ==
    \/ RunScanFilter
    \/ RunStrategy
    \/ RunScanReturn
    \/ CallMacroScore
    \/ CallFindOpportunities
    \/ CallTargetsScore

ScoringSpec == ScoringInit /\ [][ScoringNext]_vars

(***************************************************************************)
(* The whole scan cycle, from the price sources and the raw market feed    *)
(***************************************************************************)
MaxFeed == 2

\* the items of a raw feed: a non-mapping, a mapping without a title, a mapping with one
RawItems ==
    { [kind |-> "nondict"],
      [kind |-> "dict", id |-> "1", title |-> ""],
      [kind |-> "dict", id |-> "2", title |-> "Bitcoin up or down"] }

RawFeeds == UNION {[1..n -> RawItems] : n \in 0..MaxFeed}

\* one price source: the request fails, or it answers with a price
Failed == [ok |-> FALSE]
Quote(p) == [ok |-> TRUE, price |-> p]
SourceOutcomes == {Failed} \cup {Quote(p) : p \in {0} \cup Spots}

\* a client method is absent, raises, or returns the feed
MethodOutcomes == {"absent", "raise", "ok"}

\* the HTTP fallback: request error, non-JSON body, a JSON list, {"data": list},
\* {"data": null}, any other JSON value
HttpOutcomes == {"error", "nonjson", "list", "wrapped", "wrapped_null", "other"}

Feeds ==
    [binance : SourceOutcomes, coinbase : SourceOutcomes,
     get_markets : MethodOutcomes, fetch_markets : MethodOutcomes,
     http : HttpOutcomes, items : RawFeeds]

\* price_feeds.get_btc_price: Binance first, Coinbase second, RuntimeError last
get_btc_price(f) ==
    IF f.binance.ok THEN Quote(f.binance.price)
    ELSE IF f.coinbase.ok THEN Quote(f.coinbase.price)
    ELSE Raised("RuntimeError")

\* _fetch_btc_price answering a failed feed with a stale positive price
fetch_btc_price_stale(f) ==
    LET got == get_btc_price(f)
    IN  IF got = Raised("RuntimeError") THEN 100000 ELSE got.price

\* Scanner._fetch_btc_price: 0.0 on any exception
fetch_btc_price(f) ==
    LET got == get_btc_price(f)
    IN  IF got = Raised("RuntimeError") THEN 0 ELSE got.price

\* models.Market.__init__(self, id, question, url=None, group=None, outcomes=None, **extra)
MarketRequired == {"id", "question"}

NewMarket(kwargs) ==
    IF MarketRequired \subseteq DOMAIN kwargs
    THEN [r |-> "ok", market |-> kwargs]
    ELSE Raised("TypeError")

\* the keyword arguments parse_markets passes to Market(...)
ParseKwargs(raw) ==
    [id |-> raw.id, slug |-> raw.id, title |-> raw.title,
     url |-> "https://polymarket.com/event/" \o raw.id, outcomes |-> <<>>,
     volume |-> 0, liquidity |-> 0, end_date |-> NoText, resolved |-> FALSE, raw |-> raw]

\* parser.parse_markets on a list: non-mappings and untitled mappings are skipped
parse_markets(raw_markets) ==
    LET Titled(raw) == raw.kind = "dict" /\ raw.title # ""
        titled == SelectSeq(raw_markets, Titled)
        built == [j \in 1..Len(titled) |-> NewMarket(ParseKwargs(titled[j]))]
    IN  IF \E j \in 1..Len(built) : built[j].r = "raise"
        THEN Raised("TypeError")
        ELSE Returned([j \in 1..Len(built) |-> built[j].market])

\* one client method of _load_markets: the parsed markets, or fall through
ClientPath(outcome, items) ==
    IF outcome = "ok" THEN parse_markets(items) ELSE [r |-> "fall", why |-> outcome]

\* Scanner._load_markets_http
load_markets_http(f) ==
    IF f.http \in {"error", "nonjson", "other"} THEN Returned(<<>>)
    ELSE IF f.http = "wrapped_null" THEN Raised("TypeError")
    ELSE parse_markets(f.items)

Init ==
    /\ pc = "start"
    /\ feed \in Feeds
    /\ markets = <<>>
    /\ btc_price = 0
    /\ btc_markets = <<>>
    /\ si = 1
    /\ all_opps = <<>>
    /\ calls = {}
    /\ failures = {}
    /\ result = NoResult

\* run_scan, lines 50-56
FetchBtcPrice ==
    /\ pc = "start"
    /\ btc_price' = fetch_btc_price(feed)
    /\ IF btc_price' <= 0
       THEN pc' = "returned" /\ result' = Returned(<<>>)
       ELSE pc' = "get_markets" /\ result' = result
    /\ UNCHANGED <<feed, markets, btc_markets, si, all_opps, calls, failures>>

\* _load_markets, lines 113-124
TryGetMarkets ==
    /\ pc = "get_markets"
    /\ LET got == ClientPath(feed.get_markets, feed.items)
       IN  IF got.r = "ok"
           THEN pc' = "loaded" /\ markets' = got.results
           ELSE pc' = "fetch_markets" /\ markets' = markets
    /\ UNCHANGED <<feed, btc_price, btc_markets, si, all_opps, calls, failures, result>>

\* _load_markets, lines 126-137
TryFetchMarkets ==
    /\ pc = "fetch_markets"
    /\ LET got == ClientPath(feed.fetch_markets, feed.items)
       IN  IF got.r = "ok"
           THEN pc' = "loaded" /\ markets' = got.results
           ELSE pc' = "http" /\ markets' = markets
    /\ UNCHANGED <<feed, btc_price, btc_markets, si, all_opps, calls, failures, result>>

\* _load_markets line 141 and _load_markets_http: an exception here leaves run_scan
LoadMarketsHttp ==
    /\ pc = "http"
    /\ LET got == load_markets_http(feed)
       IN  IF got.r = "ok"
           THEN pc' = "loaded" /\ markets' = got.results /\ result' = result
           ELSE pc' = "raised" /\ markets' = markets /\ result' = got
    /\ UNCHANGED <<feed, btc_price, btc_markets, si, all_opps, calls, failures>>

\* RunStrategy and RunScanReturn need a loaded market: parse_markets builds none
Next ==
    \/ FetchBtcPrice
    \/ TryGetMarkets
    \/ TryFetchMarkets
    \/ LoadMarketsHttp
    \/ RunScanFilter

Spec == Init /\ [][Next]_vars

(***************************************************************************)
(* get_btc_price one request at a time: calls records the sources asked.   *)
(***************************************************************************)
PriceInit ==
    /\ pc = "binance"
    /\ feed \in Feeds
    /\ markets = <<>>
    /\ btc_price = 0
    /\ btc_markets = <<>>
    /\ si = 1
    /\ all_opps = <<>>
    /\ calls = {}
    /\ failures = {}
    /\ result = NoResult

PriceUnchanged == UNCHANGED <<feed, markets, btc_markets, si, all_opps, failures>>

\* get_btc_price going on to Coinbase after a Binance answer as well
QueryBinanceFallsThrough ==
    /\ pc = "binance"
    /\ calls' = calls \cup {<<"get_btc_price", "binance">>}
    /\ pc' = "coinbase"
    /\ result' = result
    /\ btc_price' = btc_price
    /\ PriceUnchanged

\* price_feeds.get_btc_price, lines 22-36
QueryBinance ==
    /\ pc = "binance"
    /\ calls' = calls \cup {<<"get_btc_price", "binance">>}
    /\ IF feed.binance.ok
       THEN pc' = "price_returned" /\ result' = Quote(feed.binance.price)
       ELSE pc' = "coinbase" /\ result' = result
    /\ btc_price' = btc_price
    /\ PriceUnchanged

\* price_feeds.get_btc_price, lines 39-53
QueryCoinbase ==
    /\ pc = "coinbase"
    /\ calls' = calls \cup {<<"get_btc_price", "coinbase">>}
    /\ IF feed.coinbase.ok
       THEN pc' = "price_returned" /\ result' = Quote(feed.coinbase.price)
       ELSE pc' = "price_raised" /\ result' = Raised("RuntimeError")
    /\ btc_price' = btc_price
    /\ PriceUnchanged

\* _fetch_btc_price, lines 233-242, and run_scan, lines 50-56
FetchedBtcPrice ==
    /\ pc \in {"price_returned", "price_raised"}
    /\ btc_price' = IF pc = "price_raised" THEN 0 ELSE result.price
    /\ IF btc_price' <= 0
       THEN pc' = "returned" /\ result' = Returned(<<>>)
       ELSE pc' = "get_markets" /\ result' = NoResult
    /\ calls' = calls
    /\ PriceUnchanged

PriceNext ==
    \/ QueryBinance
    \/ QueryCoinbase
    \/ FetchedBtcPrice

\* the scan cycle with the price lookup in one step or request by request
PriceSpec == (Init \/ PriceInit) /\ [][Next \/ PriceNext]_vars

\* run_scan from raw inputs or from a loaded batch, and the direct calls
ScanSpec == (Init \/ ScoringInit) /\ [][Next \/ ScoringNext]_vars

(***************************************************************************)
(* Normalization of raw payloads: core/parser.py, parser.py and            *)
(* integrations/polymarket_client.py.  A JSON value is None (also what     *)
(* dict.get gives for a missing key), a text, an integer, a float (held in *)
(* 1/10000, as the prices are; json.loads reads 1e999 as the float inf), a *)
(* list or a mapping.                                                      *)
(***************************************************************************)
Txt(s) == [k |-> "text", s |-> s]
IntV(n) == [k |-> "int", n |-> n]
InfV == [k |-> "inf"]
Lst(items) == [k |-> "list", items |-> items]
Map(fields) == [k |-> "dict", f |-> fields]

\* bool(x)
Truthy(x) ==
    IF x.k = "None" THEN FALSE
    ELSE IF x.k = "text" THEN x.s # ""
    ELSE IF x.k = "int" THEN x.n # 0
    ELSE IF x.k = "float" THEN x.v # 0
    ELSE IF x.k = "inf" THEN TRUE
    ELSE IF x.k = "list" THEN x.items # <<>>
    ELSE DOMAIN x.f # {}

\* a or b or ... : the first truthy operand, else the last one
OrChain(vals) ==
    IF \E i \in 1..Len(vals) : Truthy(vals[i])
    THEN vals[CHOOSE i \in 1..Len(vals) : Truthy(vals[i]) /\ \A j \in 1..(i - 1) : ~Truthy(vals[j])]
    ELSE vals[Len(vals)]

\* raw.get(key) on a mapping
Get(raw, key) == IF key \in DOMAIN raw.f THEN raw.f[key] ELSE NoneV

\* s.strip(), for blanks
Strip(s) ==
    LET inked == {i \in 1..Len(s) : CharAt(s, i) # " "}
        first == CHOOSE i \in inked : \A j \in inked : i <= j
        last == CHOOSE i \in inked : \A j \in inked : i >= j
    IN  IF inked = {} THEN "" ELSE SubSeq(s, first, last)

NoParse == [ok |-> FALSE]
Parsed(v) == [ok |-> TRUE, v |-> v]

\* int(text) once the blanks are stripped: decimal digits only
ParseInt(t) ==
    IF t # "" /\ AllDigits(t, 1, Len(t)) THEN Parsed(ToNumber(t, 1, Len(t))) ELSE NoParse

\* the first four decimals written by the n digits of s that start at i
Decimals(s, i, n) ==
    LET F[k \in 0..4] ==
            IF k = 0 THEN 0
            ELSE F[k - 1] * 10 + (IF k <= n THEN DigitVal(CharAt(s, i + k - 1)) ELSE 0)
    IN  F[4]

\* float(text) once the blanks are stripped, for plain decimal notation, in 1/10000
ParseFloat(t) ==
    LET dots == {i \in 1..Len(t) : CharAt(t, i) = "."}
        d == CHOOSE i \in dots : TRUE
    IN  IF t = "" THEN NoParse
        ELSE IF dots = {} THEN
            (IF AllDigits(t, 1, Len(t)) THEN Parsed(10000 * ToNumber(t, 1, Len(t))) ELSE NoParse)
        ELSE IF Cardinality(dots) > 1 \/ Len(t) = 1 THEN NoParse
        ELSE IF AllDigits(t, 1, d - 1) /\ AllDigits(t, d + 1, Len(t) - d)
        THEN Parsed(10000 * ToNumber(t, 1, d - 1) + Decimals(t, d + 1, Len(t) - d))
        ELSE NoParse

\* float(x) of a finite value: a number, a TypeError or a ValueError
FloatOf(x) ==
    IF x.k = "float" THEN Parsed(x.v)
    ELSE IF x.k = "int" THEN Parsed(10000 * x.n)
    ELSE IF x.k = "text" THEN ParseFloat(Strip(x.s))
    ELSE NoParse

\* int(x) of a finite value: a float is truncated
IntOf(x) ==
    IF x.k = "int" THEN Parsed(x.n)
    ELSE IF x.k = "float" THEN Parsed(x.v \div 10000)
    ELSE IF x.k = "text" THEN ParseInt(Strip(x.s))
    ELSE NoParse

\* core/parser._s
s_(x) == IF x.k = "text" THEN Strip(x.s) ELSE ""

\* core/parser._flt: float(inf) is inf
flt_(x) ==
    IF x = NoneV THEN NoneV
    ELSE IF x = InfV THEN InfV
    ELSE IF FloatOf(x).ok THEN Num(FloatOf(x).v) ELSE NoneV

\* core/parser._int: int(inf) is an OverflowError, which the handler does not name
int_(x) ==
    IF x = NoneV THEN NoneV
    ELSE IF x = InfV THEN Raised("OverflowError")
    ELSE IF IntOf(x).ok THEN IntV(IntOf(x).v) ELSE NoneV

\* parser._safe_float with its default 0.0
safe_float(x) ==
    IF x = NoneV THEN Num(0)
    ELSE IF x = InfV THEN InfV
    ELSE IF FloatOf(x).ok THEN Num(FloatOf(x).v) ELSE Num(0)

\* the decimals of str(float): four digits without their trailing zeros, one at least
FracText(frac) ==
    LET d4 == <<frac \div 1000, (frac \div 100) % 10, (frac \div 10) % 10, frac % 10>>
        used == {i \in 1..4 : d4[i] # 0} \cup {1}
        n == CHOOSE i \in used : \A j \in used : i >= j
        F[i \in 0..n] == IF i = 0 THEN "" ELSE F[i - 1] \o ToString(d4[i])
    IN  F[n]

\* str(x); the repr of a non-empty list or mapping is abbreviated
StrOf(x) ==
    IF x.k = "text" THEN x.s
    ELSE IF x.k = "int" THEN ToString(x.n)
    ELSE IF x.k = "float" THEN ToString(x.v \div 10000) \o "." \o FracText(x.v % 10000)
    ELSE IF x.k = "None" THEN "None"
    ELSE IF x.k = "inf" THEN "inf"
    ELSE IF x.k = "list" THEN (IF x.items = <<>> THEN "[]" ELSE "[...]")
    ELSE (IF DOMAIN x.f = {} THEN "{}" ELSE "{...}")

\* the elements of a finite set, in some order
SetToSeq(S) == CHOOSE q \in [1..Cardinality(S) -> S] : {q[i] : i \in 1..Cardinality(S)} = S

\* [t for t in raw_tags if isinstance(t, str)]: a text iterates over its characters
TagsOf(raw_tags) ==
    IF raw_tags.k = "list"
    THEN LET IsText(v) == v.k = "text"
             texts == SelectSeq(raw_tags.items, IsText)
         IN  [i \in 1..Len(texts) |-> texts[i].s]
    ELSE IF raw_tags.k = "text" THEN [i \in 1..Len(raw_tags.s) |-> CharAt(raw_tags.s, i)]
    ELSE SetToSeq(DOMAIN raw_tags.f)

Built(m) == [r |-> "ok", market |-> m]

\* core/parser.to_market
to_market(row) ==
    LET wrapped == Get(row, "market")
        mkt == IF Truthy(wrapped) THEN wrapped ELSE row
        G(key) == Get(mkt, key)
        market_id == OrChain(<<G("id"), G("slug"), G("conditionId"), G("questionId"), Txt("")>>)
        raw_end == OrChain(<<G("endDate"), G("endTime"), G("resolutionTime"), G("closeTime")>>)
        raw_group == OrChain(<<G("group"), G("event"), G("tournament"), G("collection")>>)
        yes_price == OrChain(<<G("yesPrice"), G("yes_probability"), G("yes_prob"), G("buy_yes")>>)
        no_price == OrChain(<<G("noPrice"), G("no_probability"), G("no_prob"), G("buy_no")>>)
        raw_tags == OrChain(<<G("tags"), Lst(<<>>)>>)
    IN  IF mkt.k # "dict" THEN Raised("AttributeError")
        ELSE IF raw_tags.k \in {"int", "float", "inf"} THEN Raised("TypeError")
        ELSE IF int_(raw_end) = Raised("OverflowError") THEN Raised("OverflowError")
        ELSE Built([id |-> StrOf(market_id),
                    url |-> s_(OrChain(<<G("url"), G("link"), G("pageUrl")>>)),
                    title |-> s_(G("title")),
                    question |-> s_(OrChain(<<G("question"), G("name")>>)),
                    group |-> s_(raw_group),
                    yes_price |-> flt_(yes_price),
                    no_price |-> flt_(no_price),
                    end_ts |-> int_(raw_end),
                    tags |-> TagsOf(raw_tags)])

\* the raw payloads of the feeds; a batch holds MaxRaw items at most
MaxRaw == 2

\* a payload both normalizers accept
Base ==
    [id |-> Txt("7"), question |-> Txt("Will Bitcoin hit 100k?"),
     endDate |-> Txt("2025-01-01T00:00:00Z"),
     outcomes |-> Lst(<<Txt("Yes"), Txt("No")>>),
     outcomePrices |-> Lst(<<Txt("0.4"), Txt("0.6")>>),
     yesPrice |-> Txt("0.4"), noPrice |-> Txt("0.6"),
     tags |-> Lst(<<Txt("crypto")>>)]

Second == [Base EXCEPT !.id = Txt("8"), !.question = Txt("Will Bitcoin hit 120k?")]

\* a mapping without identifier
NoId == [question |-> Base.question, endDate |-> Base.endDate, outcomes |-> Base.outcomes,
         outcomePrices |-> Base.outcomePrices, yesPrice |-> Base.yesPrice,
         noPrice |-> Base.noPrice, tags |-> Base.tags]

Payloads ==
    { Map(Base), Map(Second), Map(NoId), Map(<<>>),
      Map([Base EXCEPT !.endDate = IntV(1700000000)]),
      Map([Base EXCEPT !.endDate = Txt("soon")]),
      Map([Base EXCEPT !.endDate = InfV]),
      Map([Base EXCEPT !.question = IntV(123)]),
      Map([Base EXCEPT !.tags = IntV(5)]),
      Map([Base EXCEPT !.yesPrice = Txt("abc")]),
      Map([Base EXCEPT !.outcomePrices = Lst(<<Num(15000), Num(0 - 2000)>>)]),
      Map([market |-> Txt("abc")]) }

\* what a feed may hold in the place of a mapping
NonMappings == {Txt("x"), NoneV}

FeedItems == Payloads \cup NonMappings

RawBatches == UNION {[1..n -> FeedItems] : n \in 0..MaxRaw}

\* to_market on each mapping of the feeds
ToMarketOf == [p \in Payloads |-> to_market(p)]

\* the markets of the results that built one, in order
MarketsOf(results) ==
    LET IsBuilt(res) == res.r = "ok"
        built == SelectSeq(results, IsBuilt)
    IN  [i \in 1..Len(built) |-> built[i].market]

\* core/parser.parse_markets: non-mappings are left out, a raising row is swallowed
core_parse_markets(raw) ==
    IF raw.k # "list" THEN <<>>
    ELSE MarketsOf([j \in 1..Len(raw.items) |->
                        IF raw.items[j].k = "dict" THEN ToMarketOf[raw.items[j]] ELSE Nothing])

\* value.split(","): the pieces between the commas
SplitCommas(s) ==
    LET commas == {i \in 1..Len(s) : CharAt(s, i) = ","}
        n == Cardinality(commas)
        cut(k) == CHOOSE i \in commas : Cardinality({j \in commas : j < i}) = k - 1
    IN  [k \in 1..(n + 1) |->
            SubSeq(s, IF k = 1 THEN 1 ELSE cut(k - 1) + 1, IF k = n + 1 THEN Len(s) ELSE cut(k) - 1)]

\* json.loads gives a number for the stripped text t: digits, with decimals or without
IsJsonNumber(t) == ParseFloat(t).ok /\ IsDigit(CharAt(t, 1)) /\ IsDigit(CharAt(t, Len(t)))

\* PolymarketClient._ensure_list.  A text is a JSON number (not a list: [])
\* or no JSON at all (split at the commas); texts holding a JSON list, string
\* or literal are not among the inputs.
ensure_list(value) ==
    IF value.k = "list" THEN value.items
    ELSE IF value.k = "text" /\ ~IsJsonNumber(Strip(value.s))
    THEN LET NonBlank(t) == Strip(t) # ""
             parts == SelectSeq(SplitCommas(value.s), NonBlank)
         IN  [i \in 1..Len(parts) |-> Txt(Strip(parts[i]))]
    ELSE <<>>

\* PolymarketClient._parse_outcomes: a price float() rejects is left out
parse_outcomes(raw) ==
    LET names == ensure_list(Get(raw, "outcomes"))
        prices == ensure_list(Get(raw, "outcomePrices"))
        F[i \in 0..Len(prices)] ==
            IF i = 0 THEN <<>>
            ELSE IF FloatOf(prices[i]).ok
            THEN Append(F[i - 1],
                        [name |-> IF i <= Len(names) THEN names[i]
                                  ELSE Txt("Outcome " \o ToString(i - 1)),
                         price |-> FloatOf(prices[i]).v])
            ELSE F[i - 1]
    IN  F[Len(prices)]

\* end_ts.replace("Z", "+00:00")
ReplaceZ(s) ==
    LET F[i \in 0..Len(s)] ==
            IF i = 0 THEN ""
            ELSE F[i - 1] \o (IF CharAt(s, i) = "Z" THEN "+00:00" ELSE CharAt(s, i))
    IN  F[Len(s)]

\* datetime.fromisoformat(s).astimezone(timezone.utc) for the form
\* YYYY-MM-DD?HH:MM:SS+00:00; texts in another ISO form or with another
\* offset are not among the inputs.
FromIso(s) ==
    LET two(i) == ToNumber(s, i, 2)
        shaped == /\ Len(s) = 25
                  /\ AllDigits(s, 1, 4) /\ CharAt(s, 5) = "-" /\ AllDigits(s, 6, 2)
                  /\ CharAt(s, 8) = "-" /\ AllDigits(s, 9, 2)
                  /\ AllDigits(s, 12, 2) /\ CharAt(s, 14) = ":" /\ AllDigits(s, 15, 2)
                  /\ CharAt(s, 17) = ":" /\ AllDigits(s, 18, 2)
                  /\ SubSeq(s, 20, 25) = "+00:00"
    IN  IF shaped /\ two(6) \in 1..12 /\ two(9) \in 1..31
                  /\ two(12) < 24 /\ two(15) < 60 /\ two(18) < 60
        THEN Parsed([year |-> ToNumber(s, 1, 4), month |-> two(6), day |-> two(9),
                     hour |-> two(12), minute |-> two(15), second |-> two(18)])
        ELSE NoParse

\* str(x).strip() of an optional debug field
DebugText(x) == IF Truthy(x) THEN Txt(Strip(StrOf(x))) ELSE x

\* PolymarketClient._parse_market
parse_market(raw) ==
    LET G(key) == Get(raw, key)
        market_id == Strip(StrOf(OrChain(<<G("id"), G("_id"), Txt("")>>)))
        q == OrChain(<<G("question"), G("title"), Txt("")>>)
        end_ts == OrChain(<<G("endDate"), G("closesAt"), G("end_time")>>)
        end_time == FromIso(ReplaceZ(end_ts.s))
        outcomes == parse_outcomes(raw)
        event_slug == DebugText(OrChain(<<G("eventSlug"), G("event_slug"), G("groupSlug"), G("slug")>>))
        token_id == DebugText(OrChain(<<G("tokenId"), G("token_id"), G("conditionId"), G("tid")>>))
        market_url == "https://polymarket.com/market/" \o market_id
    IN  IF raw.k # "dict" THEN Raised("AttributeError")
        ELSE IF market_id = "" THEN Nothing
        ELSE IF q.k # "text" THEN Raised("AttributeError")
        ELSE IF Strip(q.s) = "" THEN Nothing
        ELSE IF ~Truthy(end_ts) THEN Nothing
        ELSE IF end_ts.k # "text" THEN Nothing
        ELSE IF ~end_time.ok THEN Nothing
        ELSE IF Len(outcomes) < 2 THEN Nothing
        ELSE Built([id |-> market_id, question |-> Strip(q.s), url |-> market_url,
                    end_time |-> end_time.v, outcomes |-> outcomes, market_url |-> market_url,
                    event_url |-> IF Truthy(event_slug) /\ Truthy(token_id)
                                  THEN Txt("https://polymarket.com/event/" \o event_slug.s
                                           \o "?tid=" \o token_id.s)
                                  ELSE NoneV,
                    event_slug |-> event_slug, token_id |-> token_id])

\* _parse_market on each item of the feeds
ParsedOf == [p \in FeedItems |-> parse_market(p)]

\* PolymarketClient.fetch_open_markets on the JSON body of the response: no
\* handler around _parse_market, the first exception ends the call
fetch_open_markets(data) ==
    LET raw_markets == IF data.k = "list" THEN data
                       ELSE IF data.k = "dict" /\ "markets" \in DOMAIN data.f THEN data.f["markets"]
                       ELSE Lst(<<>>)
        results == [j \in 1..Len(raw_markets.items) |-> ParsedOf[raw_markets.items[j]]]
    IN  IF raw_markets.k \in {"None", "int", "float", "inf"} THEN Raised("TypeError")
        ELSE IF raw_markets.k # "list" THEN Raised("AttributeError")
        ELSE IF \E j \in 1..Len(results) : results[j].r = "raise"
        THEN Raised("AttributeError")
        ELSE Returned(MarketsOf(results))

\* what parser.parse_markets reads of the item at position idx (from 0): the
\* id falls back to "unknown-<idx>", the title to the question
RawItemOf(raw, idx) ==
    IF raw.k # "dict" THEN [kind |-> "nondict"]
    ELSE [kind |-> "dict",
          id |-> StrOf(OrChain(<<Get(raw, "id"), Get(raw, "_id"), Get(raw, "conditionId"),
                                 Get(raw, "marketId"), Txt("unknown-" \o ToString(idx))>>)),
          title |-> Strip(StrOf(OrChain(<<Get(raw, "title"), Get(raw, "question"), Get(raw, "name"),
                                          Get(raw, "description"), Txt("")>>)))]

\* parser.parse_markets on a JSON value
parse_markets_json(raw) ==
    IF raw.k # "list" THEN Returned(<<>>)
    ELSE parse_markets([j \in 1..Len(raw.items) |-> RawItemOf(raw.items[j], j - 1)])

(***************************************************************************)
(* The normalizers called on raw payloads.                                 *)
(***************************************************************************)
\* the values handed to the numeric coercions
CoerceInputs ==
    {NoneV, Txt("0.5"), Txt("12"), Txt(" 7 "), Txt("abc"), Txt(""), IntV(3), Num(2500), InfV,
     Lst(<<IntV(1)>>), Map(Base)}

NormInit ==
    /\ pc = "raw"
    /\ feed \in RawBatches
    /\ markets = <<>>
    /\ btc_price = 0
    /\ btc_markets = <<>>
    /\ si = 1
    /\ all_opps = <<>>
    /\ calls = {}
    /\ failures = {}
    /\ result = Nothing

NormUnchanged == UNCHANGED <<feed, markets, btc_price, btc_markets, all_opps, calls, failures>>

\* core/parser.to_market on one mapping of the batch
CallToMarket ==
    /\ pc = "raw"
    /\ \E j \in 1..Len(feed) :
        /\ feed[j].k = "dict"
        /\ si' = j
        /\ result' = ToMarketOf[feed[j]]
    /\ pc' = "to_market"
    /\ NormUnchanged

\* PolymarketClient._parse_market on one mapping of the batch
CallParseMarket ==
    /\ pc = "raw"
    /\ \E j \in 1..Len(feed) :
        /\ feed[j].k = "dict"
        /\ si' = j
        /\ result' = ParsedOf[feed[j]]
    /\ pc' = "parse_market"
    /\ NormUnchanged

\* core/parser.parse_markets on the batch
CallCoreParseMarkets ==
    /\ pc = "raw"
    /\ result' = Returned(core_parse_markets(Lst(feed)))
    /\ pc' = "core_parse_markets"
    /\ UNCHANGED si
    /\ NormUnchanged

\* PolymarketClient.fetch_open_markets, the response body being the batch
CallFetchOpenMarkets ==
    /\ pc = "raw"
    /\ result' = fetch_open_markets(Lst(feed))
    /\ pc' = "fetch_open_markets"
    /\ UNCHANGED si
    /\ NormUnchanged

\* parser.parse_markets on the batch
CallParseMarkets ==
    /\ pc = "raw"
    /\ result' = parse_markets_json(Lst(feed))
    /\ pc' = "parse_markets"
    /\ UNCHANGED si
    /\ NormUnchanged

Coerced(arg, value) == [r |-> "coerced", arg |-> arg, value |-> value]

\* core/parser._flt
CallFlt ==
    /\ pc = "raw"
    /\ \E x \in CoerceInputs : result' = Coerced(x, flt_(x))
    /\ pc' = "_flt"
    /\ UNCHANGED si
    /\ NormUnchanged

\* core/parser._int
CallInt ==
    /\ pc = "raw"
    /\ \E x \in CoerceInputs : result' = Coerced(x, int_(x))
    /\ pc' = "_int"
    /\ UNCHANGED si
    /\ NormUnchanged

\* parser._safe_float
CallSafeFloat ==
    /\ pc = "raw"
    /\ \E x \in CoerceInputs : result' = Coerced(x, safe_float(x))
    /\ pc' = "_safe_float"
    /\ UNCHANGED si
    /\ NormUnchanged

\* the alias keys to_market reads for one field, in the order it reads them
AliasKeys ==
    [end_ts |-> <<"endDate", "endTime", "resolutionTime", "closeTime">>,
     yes_price |-> <<"yesPrice", "yes_probability", "yes_prob", "buy_yes">>,
     no_price |-> <<"noPrice", "no_probability", "no_prob", "buy_no">>]

AliasFields == DOMAIN AliasKeys

\* the values a payload may hold under an alias key of the field
AliasValues(field) ==
    IF field = "end_ts" THEN {IntV(1700000000), IntV(0), Txt("1700000000")}
    ELSE {Num(4000), Txt("0.4"), IntV(0), Num(0), Num(15000), Num(0 - 2000)}

\* the mapping without the keys of the field
WithoutField(fields, field) ==
    LET keys == {AliasKeys[field][i] : i \in 1..4}
    IN  [key \in DOMAIN fields \ keys |-> fields[key]]

\* the payload raw with the field held under the one key given
WithAlias(raw, field, key, value) ==
    LET rest == WithoutField(raw.f, field)
    IN  Map([k2 \in DOMAIN rest \cup {key} |-> IF k2 = key THEN value ELSE rest[k2]])

\* core/parser.to_market on two payloads that differ only in the alias key
\* (the first key of the field, and its i-th key) under which one value stands
CallToMarketAliased ==
    /\ pc = "raw"
    /\ \E j \in 1..Len(feed), field \in AliasFields, i \in 1..4 :
        /\ feed[j].k = "dict"
        /\ ToMarketOf[feed[j]].r = "ok"
        /\ \E value \in AliasValues(field) :
            result' = [r |-> "aliased", field |-> field, key |-> AliasKeys[field][i],
                       value |-> value,
                       first |-> to_market(WithAlias(feed[j], field, AliasKeys[field][1], value)),
                       other |-> to_market(WithAlias(feed[j], field, AliasKeys[field][i], value))]
        /\ si' = j
    /\ pc' = "to_market_aliased"
    /\ NormUnchanged

\* the payload with the field quoted under two of its alias keys
WithTwoAliases(raw, field, key, value, later_key, later) ==
    LET rest == WithoutField(raw.f, field)
    IN  Map([k2 \in DOMAIN rest \cup {key, later_key} |->
                IF k2 = key THEN value ELSE IF k2 = later_key THEN later ELSE rest[k2]])

\* the value a later alias key carries
LaterValues == {Num(7000)}

\* to_market on a payload that quotes one price under two alias keys
CallToMarketTwoAliases ==
    /\ pc = "raw"
    /\ \E j \in 1..Len(feed), field \in {"yes_price", "no_price"}, i \in 1..3 :
        /\ feed[j].k = "dict"
        /\ ToMarketOf[feed[j]].r = "ok"
        /\ \E i2 \in (i + 1)..4, value \in AliasValues(field), later \in LaterValues :
            result' = [r |-> "two_aliases", field |-> field,
                       key |-> AliasKeys[field][i], value |-> value,
                       later_key |-> AliasKeys[field][i2], later |-> later,
                       out |-> to_market(WithTwoAliases(feed[j], field, AliasKeys[field][i],
                                                        value, AliasKeys[field][i2], later))]
        /\ si' = j
    /\ pc' = "to_market_two_aliases"
    /\ NormUnchanged

NormNext ==
    \/ CallToMarket
    \/ CallToMarketAliased
    \/ CallToMarketTwoAliases
    \/ CallParseMarket
    \/ CallCoreParseMarkets
    \/ CallFetchOpenMarkets
    \/ CallParseMarkets
    \/ CallFlt
    \/ CallInt
    \/ CallSafeFloat

NormSpec == NormInit /\ [][NormNext]_vars

(***************************************************************************)
(* core/risk_engine.py.  Money is in whole dollars, percentages in basis   *)
(* points; feed holds the engine (its config and its RiskState), calls the *)
(* P&L values registered so far, result what the last call returned.       *)
(***************************************************************************)
MaxTrades == 3

\* the realized P&L of one trade
PnLs == {0 - 150, 0 - 50, 100}

\* load_config: ACCOUNT_VALUE, RISK_PER_TRADE_PCT = 0.005, DAILY_MAX_LOSS_PCT = 0.02
risk_per_trade_pct == 50
daily_max_loss_pct == 200
RiskConfigs ==
    [account_value : {0, 10000}, risk_per_trade_pct : {risk_per_trade_pct},
     daily_max_loss_pct : {daily_max_loss_pct}]

\* RiskState()
NewRiskState == [daily_realized_pnl |-> 0, trades_today |-> 0]

\* the limit compared strictly: a loss equal to the limit still trades
hit_daily_loss_limit_strict(cfg, state) ==
    10000 * state.daily_realized_pnl < 0 - (cfg.account_value * cfg.daily_max_loss_pct)

\* daily_realized_pnl <= -account_value * daily_max_loss_pct
hit_daily_loss_limit(cfg, state) ==
    10000 * state.daily_realized_pnl <= 0 - (cfg.account_value * cfg.daily_max_loss_pct)

\* account_value * risk_per_trade_pct, in dollars
compute_position_size(cfg) == (cfg.account_value * cfg.risk_per_trade_pct) \div 10000

register_trade_result(state, realized_pnl) ==
    [daily_realized_pnl |-> state.daily_realized_pnl + realized_pnl,
     trades_today |-> state.trades_today + 1]

should_trade(cfg, state) ==
    IF hit_daily_loss_limit(cfg, state)
    THEN [allowed |-> FALSE, reason |-> "Daily loss limit reached"]
    ELSE [allowed |-> TRUE, reason |-> "OK"]

RiskInit ==
    /\ pc = "risk"
    /\ feed \in [cfg : RiskConfigs, state : {NewRiskState}]
    /\ markets = <<>>
    /\ btc_price = 0
    /\ btc_markets = <<>>
    /\ si = 1
    /\ all_opps = <<>>
    /\ calls = <<>>
    /\ failures = {}
    /\ result = NoResult

RiskUnchanged == UNCHANGED <<markets, btc_price, btc_markets, si, all_opps, failures>>

CallRegisterTradeResult ==
    /\ Len(calls) < MaxTrades
    /\ \E realized_pnl \in PnLs :
          /\ feed' = [feed EXCEPT !.state = register_trade_result(@, realized_pnl)]
          /\ calls' = Append(calls, realized_pnl)
    /\ pc' = "registered"
    /\ result' = NoneV
    /\ RiskUnchanged

CallShouldTrade ==
    /\ result' = should_trade(feed.cfg, feed.state)
    /\ pc' = "should_trade"
    /\ UNCHANGED <<feed, calls>>
    /\ RiskUnchanged

CallComputePositionSize ==
    /\ result' = Num(compute_position_size(feed.cfg))
    /\ pc' = "sized"
    /\ UNCHANGED <<feed, calls>>
    /\ RiskUnchanged

RiskNext ==
    \/ CallRegisterTradeResult
    \/ CallShouldTrade
    \/ CallComputePositionSize

RiskSpec == RiskInit /\ [][RiskNext]_vars

(***************************************************************************)
(* main.py, the loop of lines 37-81.  feed holds what main built before    *)
(* the loop (the risk engine and whether a webhook is configured),         *)
(* all_opps the slice top, si the position of the trade loop, calls the    *)
(* trade lines printed in this cycle, failures the steps that raised in    *)
(* this cycle, result the exception the handler holds.                     *)
(***************************************************************************)
MaxScanOpps == 2

max_opps == 7

MainInit ==
    /\ pc = "scan"
    /\ feed \in [cfg : RiskConfigs, state : {NewRiskState}, webhook : BOOLEAN]
    /\ markets = <<>>
    /\ btc_price = 0
    /\ btc_markets = <<>>
    /\ si = 1
    /\ all_opps = <<>>
    /\ calls = {}
    /\ failures = {}
    /\ result = NoResult

MainUnchanged == UNCHANGED <<feed, markets, btc_price, btc_markets>>

\* an exception leaves the try block for the handler of line 68
ToHandler(step) ==
    /\ pc' = "except"
    /\ result' = Raised(step)
    /\ failures' = failures \cup {step}

\* lines 42-47: run_scan returns n opportunities or raises
MainRunScan ==
    /\ pc = "scan"
    /\ \/ \E n \in 0..MaxScanOpps :
             /\ all_opps' = [j \in 1..Min(n, max_opps) |-> j]
             /\ pc' = "format"
             /\ UNCHANGED <<result, failures>>
       \/ ToHandler("run_scan") /\ all_opps' = all_opps
    /\ UNCHANGED <<si, calls>>
    /\ MainUnchanged

\* line 50
MainFormat ==
    /\ pc = "format"
    /\ \/ pc' = "send" /\ UNCHANGED <<result, failures>>
       \/ ToHandler("format")
    /\ UNCHANGED <<all_opps, si, calls>>
    /\ MainUnchanged

\* line 51: without a webhook send only prints; with one, requests.post may raise
MainSend ==
    /\ pc = "send"
    /\ \/ /\ pc' = IF all_opps = <<>> THEN "sleep" ELSE "trade"
          /\ UNCHANGED <<result, failures>>
       \/ feed.webhook /\ ToHandler("send")
    /\ UNCHANGED <<all_opps, si, calls>>
    /\ MainUnchanged

\* lines 54-66, one iteration: the printed line reads attributes of the opportunity
MainTrade ==
    /\ pc = "trade"
    /\ LET decision == should_trade(feed.cfg, feed.state)
           line == IF decision.allowed
                   THEN <<si, "dry-run", compute_position_size(feed.cfg)>>
                   ELSE <<si, "skip", decision.reason>>
       IN  \/ /\ calls' = calls \cup {line}
              /\ IF si < Len(all_opps)
                 THEN si' = si + 1 /\ pc' = "trade"
                 ELSE si' = si /\ pc' = "sleep"
              /\ UNCHANGED <<result, failures>>
           \/ ToHandler("trade") /\ UNCHANGED <<si, calls>>
    /\ all_opps' = all_opps
    /\ MainUnchanged

\* the handler without its inner try: a failed notification leaves main
MainHandlerUnguarded ==
    /\ pc = "except"
    /\ \/ pc' = "sleep" /\ failures' = failures
       \/ feed.webhook /\ pc' = "exited" /\ failures' = failures \cup {"notify"}
    /\ UNCHANGED <<all_opps, si, calls, result>>
    /\ MainUnchanged

\* lines 68-77: the error notification is sent inside its own try
MainHandler ==
    /\ pc = "except"
    /\ \/ pc' = "sleep" /\ failures' = failures
       \/ feed.webhook /\ pc' = "sleep" /\ failures' = failures \cup {"notify"}
    /\ UNCHANGED <<all_opps, si, calls, result>>
    /\ MainUnchanged

\* lines 80-81, then the next turn of while True
MainSleep ==
    /\ pc = "sleep"
    /\ pc' = "scan"
    /\ all_opps' = <<>>
    /\ si' = 1
    /\ calls' = {}
    /\ failures' = {}
    /\ result' = NoResult
    /\ MainUnchanged

MainNext ==
    \/ MainRunScan
    \/ MainFormat
    \/ MainSend
    \/ MainTrade
    \/ MainHandler
    \/ MainSleep

MainSpec == MainInit /\ [][MainNext]_vars

\* every call of the loop returns or raises (the requests carry timeouts, the
\* sleep is finite), so the loop always takes its next step
MainLiveSpec == MainSpec /\ WF_vars(MainNext)

(***************************************************************************)
(* Properties                                                              *)
(***************************************************************************)
\* the (strategy, market) pairs run_scan scores, by position
RegisteredPairs == {<<k, j>> : k \in 1..Len(strats), j \in 1..Len(btc_markets)}

PairScore(p) == Score(strats[p[1]], btc_markets[p[2]], btc_price)

RaisingPairs == {p \in RegisteredPairs : PairScore(p).r = "raise"}

OppPairs == {p \in RegisteredPairs : PairScore(p).r = "opp"}

\* run_scan has gone through its strategy loop and returned
ScanReturned == pc = "returned" /\ btc_markets # <<>>

InList(o, list) == \E i \in 1..Len(list) : list[i] = o

\* every opportunity some operation has produced so far
ProducedOpps ==
    {all_opps[i] : i \in 1..Len(all_opps)}
        \cup (IF pc \in {"macro_returned", "targets_returned"} /\ result.r = "opp"
              THEN {result.opp} ELSE {})
        \cup (IF pc = "updown_returned" /\ result.r = "ok"
              THEN {result.results[i] : i \in 1..Len(result.results)} ELSE {})

\* every opportunity handed to a caller of run_scan or find_opportunities
HandedOpps ==
    IF pc \in {"returned", "updown_returned"} /\ result.r = "ok"
    THEN {result.results[i] : i \in 1..Len(result.results)}
    ELSE {}

\* C1: when score() raises for exactly one (market, strategy) pair of a scan,
\* run_scan returns normally and its list holds exactly the opportunities of
\* all the other pairs: one entry per pair whose score() gave an opportunity.
C1_StrategyIsolation ==
    (ScanReturned /\ Cardinality(RaisingPairs) = 1) =>
        /\ result.r = "ok"
        /\ Len(result.results) = Cardinality(OppPairs)
        /\ \A p \in OppPairs : InList(PairScore(p).opp, result.results)
        /\ \A i \in 1..Len(result.results) :
              \E p \in OppPairs : PairScore(p).opp = result.results[i]

\* exactly one pair raised; the failing strategy still gave an opportunity for
\* another market and another strategy gave one for the failing market
C1_Witness ==
    /\ ScanReturned
    /\ Cardinality(RaisingPairs) = 1
    /\ \E p \in RaisingPairs, q, r \in OppPairs :
          /\ q[1] = p[1] /\ q[2] # p[2]
          /\ r[1] # p[1] /\ r[2] = p[2]
          /\ InList(PairScore(q).opp, result.results)
          /\ InList(PairScore(r).opp, result.results)

\* C2: whatever the raw feed and the price sources answer, run_scan returns a
\* list: no exception leaves it.
C2_RunScanNeverRaises == pc # "raised"

\* C3: the list run_scan returns is in descending order of |edge|.
C3_SortedByAbsEdge ==
    ScanReturned =>
        \A i, j \in 1..Len(result.results) :
            i < j => Abs(result.results[i].edge) >= Abs(result.results[j].edge)

\* C4: during and after a scan, every market handed to a strategy and every
\* market of a returned opportunity passes the BTC-relevance test.
C4_OnlyFilteredMarkets ==
    /\ \A c \in calls : RowOfId[c[2]].keep
    /\ ScanReturned => \A i \in 1..Len(result.results) : RowOfId[result.results[i].market].keep

\* a scan returned opportunities from a batch holding a market that fails the
\* test although the intraday strategy would have scored it
C4_Witness ==
    /\ ScanReturned
    /\ result.results # <<>>
    /\ \E j \in 1..Len(markets) :
          /\ ~RowOf(markets[j]).keep
          /\ Score("BTCIntraday", markets[j], btc_price).r = "opp"
          /\ \A c \in calls : c[2] # markets[j].id

\* C5: after a scan, every BTC-relevant market of the batch with both prices
\* quoted that neither the intraday nor the price-target classifier matches
\* has an opportunity in the result, scored with fair probability 0.5.
C5_MacroFallbackScores ==
    ScanReturned =>
        \A j \in 1..Len(btc_markets) :
            LET m == btc_markets[j]
            IN  (/\ IsNum(m.yes_price) /\ IsNum(m.no_price) /\ Len(m.outcomes) >= 2
                 /\ ~RowOf(m).intraday /\ ~RowOf(m).target)
                => \E i \in 1..Len(result.results) :
                      /\ result.results[i].market = m.id
                      /\ result.results[i].fair = Num(5000)

\* C6: every opportunity produced has edge = fair probability - YES price (in
\* basis points) and side YES exactly when the edge is positive, NO otherwise.
C6_EdgeAndSide ==
    \A o \in ProducedOpps :
        /\ IsNum(o.fair) /\ IsNum(o.yes_price)
        /\ o.edge = o.fair.v - o.yes_price.v
        /\ o.side = (IF o.edge > 0 THEN "YES" ELSE "NO")

\* C7: no opportunity handed to the caller of run_scan or find_opportunities
\* has |edge| below min_edge_bp.
C7_MinEdge == \A o \in HandedOpps : Abs(o.edge) >= min_edge_bp

\* C8: no opportunity is produced for a market that expires more than
\* max_resolution_days from now.
C8_Horizon == \A o \in ProducedOpps : DaysToExpiry(MarketById(o.market)) <= max_resolution_days

\* the two prices a strategy reads are there: the outcomes list for the
\* strategies on Market objects, yes_price / no_price for the others
TwoPricesKnown(o) ==
    LET m == MarketById(o.market)
    IN  IF o.strategy \in {"macro", "btc-updown"}
        THEN Len(m.outcomes) >= 2
        ELSE m.yes_price # NoneV /\ m.no_price # NoneV

\* C9: every opportunity produced is for a market with two known outcome
\* prices, and carries the market's own YES price.
C9_TwoPrices ==
    \A o \in ProducedOpps :
        LET m == MarketById(o.market)
        IN  /\ TwoPricesKnown(o)
            /\ o.yes_price # NoneV /\ o.no_price # NoneV
            /\ o.yes_price = (IF o.strategy \in {"macro", "btc-updown"}
                              THEN Num(m.outcomes[1]) ELSE m.yes_price)

\* a scan handed a market without a YES price to the intraday strategy, whose
\* classifier matches it, and returned without an opportunity for it
C9_Witness ==
    /\ ScanReturned
    /\ \E j \in 1..Len(btc_markets) :
          /\ btc_markets[j].yes_price = NoneV
          /\ RowOf(btc_markets[j]).intraday
          /\ <<"BTCIntraday", btc_markets[j].id>> \in calls
          /\ \A i \in 1..Len(result.results) : result.results[i].market # btc_markets[j].id

\* C10: BTCMacro.score returns an opportunity only for a market that neither
\* the intraday nor the price-target classifier matches.
C10_MacroExclusive ==
    (pc = "macro_returned" /\ result.r = "opp") =>
        /\ ~RowOf(markets[si]).intraday
        /\ ~RowOf(markets[si]).target

\* C11: when the price feed raises or gives a spot price <= 0, run_scan returns
\* an empty list at once, without loading markets or calling a strategy; when
\* the loaded batch is empty it returns an empty list and calls no strategy.
C11_EmptyReturns ==
    /\ (/\ feed # NoFeed /\ pc # "start"
        /\ \/ get_btc_price(feed) = Raised("RuntimeError")
           \/ get_btc_price(feed).price <= 0)
       => /\ pc = "returned" /\ result = Returned(<<>>)
          /\ markets = <<>> /\ calls = {} /\ all_opps = <<>>
    /\ (markets = <<>> /\ pc \in {"strategies", "returned"})
       => pc = "returned" /\ result = Returned(<<>>) /\ calls = {} /\ all_opps = <<>>

\* a scan returned on a zero spot price although the client had markets to give
C11_Witness ==
    /\ pc = "returned"
    /\ feed # NoFeed
    /\ get_btc_price(feed) = Quote(0)
    /\ feed.get_markets = "ok" /\ feed.items # <<>>
    /\ result = Returned(<<>>)

\* BTCPriceTargets.score has returned for a price-target market with both prices
TargetsScored ==
    /\ pc = "targets_returned"
    /\ RowOf(markets[si]).target
    /\ IsNum(markets[si].yes_price) /\ IsNum(markets[si].no_price)
    /\ IsNum(RowOf(markets[si]).strike)

\* C12: called with a spot price <= 0 or on a market whose strike is <= 0,
\* BTCPriceTargets.score does not raise and reports fair probability 0.5.
C12_DegenerateNeutral ==
    (TargetsScored /\ (btc_price <= 0 \/ RowOf(markets[si]).strike.v <= 0))
        => result.r = "opp" /\ result.opp.fair = Num(5000)

\* C13: every fair probability an estimator reports lies in [0, 1].
C13_FairInRange ==
    /\ \A o \in ProducedOpps : IsNum(o.fair) => (0 <= o.fair.v /\ o.fair.v <= 10000)
    /\ \A m \in Catalog : 0 <= estimate_fair_prob(m) /\ estimate_fair_prob(m) <= 10000

\* BTCPriceTargets.score reported its lower bound 0.05 at spot price 0
C13_Witness ==
    /\ TargetsScored
    /\ btc_price = 0
    /\ result.r = "opp" /\ result.opp.fair = Num(500)

\* C14: when the strike equals the spot price, BTCPriceTargets.score reports
\* fair probability 0.5 whatever direction it read from the title.
C14_AtTheMoneyNeutral ==
    (TargetsScored /\ result.r = "opp" /\ result.opp.strike = Num(btc_price))
        => result.opp.fair = Num(5000)

\* "btc" or "bitcoin" occurs, in any case, in one of title, question, url, group
BtcInAnyField(m) ==
    \E f \in {m.title, m.question, m.url, m.group} :
        IsStr(f) /\ (Contains(Lower(f), "btc") \/ Contains(Lower(f), "bitcoin"))

BtcInAnyFieldOfId == [id \in MarketIds |-> BtcInAnyField(MarketById(id))]

\* C15: the filter keeps a market exactly when "btc" or "bitcoin" occurs,
\* case-insensitively, in its title/question, url or group.
C15_FilterIff ==
    (pc \in {"strategies", "returned"} /\ feed = NoFeed) =>
        \A j \in 1..Len(markets) :
            InList(markets[j], btc_markets) <=> BtcInAnyFieldOfId[markets[j].id]

\* C16: to_market and PolymarketClient._parse_market, called on one payload
\* mapping, return a market or a skip and never raise.
C16_NeverRaises ==
    pc \in {"to_market", "parse_market"} => result.r \in {"ok", "None"}

BatchCalls == {"core_parse_markets", "fetch_open_markets", "parse_markets"}

\* the normalizer behind the batch call fn makes a market of the item
WellFormed(fn, item) ==
    IF fn = "core_parse_markets" THEN item.k = "dict" /\ ToMarketOf[item].r = "ok"
    ELSE IF fn = "fetch_open_markets" THEN ParsedOf[item].r = "ok"
    ELSE item.k = "dict" /\ RawItemOf(item, 0).title # ""

\* the id of that market, the item standing at position idx (from 0)
IdOfItem(fn, item, idx) ==
    IF fn = "core_parse_markets" THEN ToMarketOf[item].market.id
    ELSE IF fn = "fetch_open_markets" THEN ParsedOf[item].market.id
    ELSE RawItemOf(item, idx).id

\* the ids of the well-formed items of the batch, in input order
ExpectedIds(fn) ==
    LET F[j \in 0..Len(feed)] ==
            IF j = 0 THEN <<>>
            ELSE IF WellFormed(fn, feed[j]) THEN Append(F[j - 1], IdOfItem(fn, feed[j], j - 1))
            ELSE F[j - 1]
    IN  F[Len(feed)]

\* C17: a batch call on a batch with exactly one malformed item returns, in
\* input order, a market for each of the other items.
C17_OneBadItem ==
    (/\ pc \in BatchCalls
     /\ Len(feed) > 1
     /\ Cardinality({j \in 1..Len(feed) : ~WellFormed(pc, feed[j])}) = 1)
        => /\ result.r = "ok"
           /\ [j \in 1..Len(result.results) |-> result.results[j].id] = ExpectedIds(pc)

\* the id-like keys the normalizers read
IdKeys == {"id", "_id", "slug", "conditionId", "questionId", "marketId"}

\* the texts the id-like keys of a payload hold
PayloadIds(raw) ==
    IF raw.k # "dict" THEN {}
    ELSE {StrOf(raw.f[key]) : key \in {k2 \in IdKeys \cap DOMAIN raw.f : Truthy(raw.f[k2])}}

\* the markets a call has emitted, each with the payload it was made of
Emitted ==
    IF pc \in {"to_market", "parse_market"} /\ result.r = "ok"
    THEN {[id |-> result.market.id, raw |-> feed[si]]}
    ELSE IF pc = "core_parse_markets"
    THEN LET Kept(j) == feed[j].k = "dict" /\ ToMarketOf[feed[j]].r = "ok"
         IN  {[id |-> ToMarketOf[feed[j]].market.id, raw |-> feed[j]] :
                  j \in {i \in 1..Len(feed) : Kept(i)}}
    ELSE IF pc = "fetch_open_markets" /\ result.r = "ok"
    THEN {[id |-> ParsedOf[feed[j]].market.id, raw |-> feed[j]] :
              j \in {i \in 1..Len(feed) : ParsedOf[feed[i]].r = "ok"}}
    ELSE {}

\* C18: every emitted market has a non-empty id that one of the id-like keys
\* of its payload holds; a payload without id is dropped.
C18_IdFromPayload ==
    \A e \in Emitted : e.id # "" /\ e.id \in PayloadIds(e.raw)

\* the coercion has failed: float() or int() rejects the argument
CoercionFails ==
    /\ pc \in {"_flt", "_int", "_safe_float"}
    /\ result.arg # NoneV
    /\ result.arg # InfV
    /\ IF pc = "_int" THEN ~IntOf(result.arg).ok ELSE ~FloatOf(result.arg).ok

\* C19: a value that cannot be coerced to a number is normalized to None,
\* never to 0 and never by raising.
C19_FailedCoercionAbsent ==
    /\ CoercionFails => result.value = NoneV
    /\ pc \in {"_flt", "_int", "_safe_float"} => result.value # Raised("OverflowError")

\* the payload a single-payload call was made on is Base but for its end date
OnlyEndDiffers ==
    /\ pc \in {"to_market", "parse_market"}
    /\ DOMAIN feed[si].f = DOMAIN Base
    /\ [feed[si].f EXCEPT !.endDate = Base.endDate] = Base

\* what the raw end date is: an epoch number, ISO-8601 text, or text that is neither
EndKind(x) ==
    IF x.k = "int" THEN "epoch"
    ELSE IF x.k = "text" /\ FromIso(ReplaceZ(x.s)).ok THEN "iso"
    ELSE IF x.k = "text" /\ ~ParseInt(Strip(x.s)).ok THEN "unparseable"
    ELSE "other"

\* the call has produced a market that carries an end timestamp
EndPresent ==
    /\ result.r = "ok"
    /\ pc = "to_market" => result.market.end_ts # NoneV

\* C20: an epoch number and an ISO-8601 text (trailing "Z" included) both give
\* the market its end timestamp; an unparseable end value gives a market
\* without end timestamp.
C20_EndResolved ==
    OnlyEndDiffers =>
        LET kind == EndKind(feed[si].f.endDate)
        IN  /\ kind \in {"epoch", "iso"} => EndPresent
            /\ kind = "unparseable" => result.r = "ok" /\ ~EndPresent

\* C21: two payloads that hold the same value under different alias keys of
\* one field are normalized by to_market to equal markets.
C21_AliasesAgree ==
    pc = "to_market_aliased" => result.first = result.other

\* the markets a normalizer call has returned
MarketsHeld ==
    IF pc \in {"to_market", "parse_market"} /\ result.r = "ok" THEN {result.market}
    ELSE IF pc = "to_market_aliased"
    THEN {res.market : res \in {x \in {result.first, result.other} : x.r = "ok"}}
    ELSE IF pc \in {"core_parse_markets", "fetch_open_markets"} /\ result.r = "ok"
    THEN {result.results[j] : j \in 1..Len(result.results)}
    ELSE {}

\* the prices a market holds: its outcome prices, or its yes_price and no_price
PricesIn(m) ==
    IF "outcomes" \in DOMAIN m THEN {m.outcomes[i].price : i \in 1..Len(m.outcomes)}
    ELSE {x.v : x \in {y \in {m.yes_price, m.no_price} : y.k = "float"}}

\* C22: every price held by a normalized market lies in [0, 1].
C22_PricesInRange ==
    \A m \in MarketsHeld : \A price \in PricesIn(m) : 0 <= price /\ price <= 10000

\* the price of the outcome whose label is Yes
YesByLabel(m) == m.outcomes[CHOOSE i \in 1..Len(m.labels) : m.labels[i] = "Yes"]

\* the opportunities of the strategies that read the outcomes list
OutcomeOpps == {o \in ProducedOpps : o.strategy \in {"macro", "btc-updown"}}

\* C23: the YES price behind the edge and the side is the price of the outcome
\* labelled Yes, wherever that outcome stands in the list.
C23_YesByLabel ==
    \A o \in OutcomeOpps :
        /\ o.yes_price = Num(YesByLabel(MarketById(o.market)))
        /\ o.edge = o.fair.v - YesByLabel(MarketById(o.market))
        /\ o.side = Side(o.fair.v - YesByLabel(MarketById(o.market)))


\* the direction BTCPriceTargets.score reads from the title of each catalogue market
TargetDirectionOf ==
    [id \in MarketIds |-> TargetDirection(Lower(TitleOf(MarketById(id))))]

\* C24: BTCPriceTargets.score returns None whenever the strike or the
\* above/below direction cannot be read; every opportunity it gives carries
\* the direction "above" or "below" and the fair probability computed from
\* that direction, the strike and the spot price.
C24_AbstainsUndetermined ==
    pc = "targets_returned" =>
        /\ (~IsNum(RowOf(markets[si]).strike) \/ TargetDirectionOf[markets[si].id] = "unknown")
              => result = Nothing
        /\ result.r = "opp" =>
              /\ result.opp.direction \in {"above", "below"}
              /\ result.opp.fair =
                    Num(TrueProb(result.opp.direction, btc_price, result.opp.strike.v))


\* C25: _load_markets asks client.get_markets, then client.fetch_markets, then
\* the HTTP fallback, in that order; it goes on to a later source only when the
\* earlier one is missing from the client or raised, and the markets it
\* returns are the parse of what the first successful source answered.
C25_SourcesInOrder ==
    [][/\ pc' = "fetch_markets" => pc = "get_markets"
       /\ pc' = "http" => pc = "fetch_markets"
       /\ (pc = "get_markets" /\ pc' = "fetch_markets")
             => feed.get_markets \in {"absent", "raise"}
       /\ (pc = "fetch_markets" /\ pc' = "http")
             => feed.fetch_markets \in {"absent", "raise"}
       /\ (pc \in {"get_markets", "fetch_markets"} /\ pc' = "loaded")
             => parse_markets(feed.items) = Returned(markets')
       /\ (pc = "http" /\ pc' = "loaded")
             => load_markets_http(feed) = Returned(markets')]_vars


\* the sources get_btc_price has asked so far
Asked(source) == <<"get_btc_price", source>> \in calls

\* C26: get_btc_price asks Binance first and Coinbase only after the Binance
\* attempt failed; it returns the price of the first source that answers and
\* raises RuntimeError only when both failed, and then _fetch_btc_price
\* returns 0.0.
C26_BinanceFirst ==
    /\ Asked("coinbase") => (Asked("binance") /\ ~feed.binance.ok)
    /\ pc = "coinbase" => Asked("binance")
    /\ pc = "price_returned" =>
          /\ result = get_btc_price(feed)
          /\ result = IF feed.binance.ok THEN Quote(feed.binance.price)
                      ELSE Quote(feed.coinbase.price)
          /\ feed.binance.ok \/ feed.coinbase.ok
    /\ pc = "price_raised" =>
          /\ result = Raised("RuntimeError")
          /\ ~feed.binance.ok /\ ~feed.coinbase.ok
          /\ Asked("binance") /\ Asked("coinbase")
    /\ (pc \notin {"start", "binance", "coinbase", "price_returned", "price_raised"}
          /\ ~feed.binance.ok /\ ~feed.coinbase.ok) => btc_price = 0

\* both sources were asked and failed, and _fetch_btc_price gave 0.0
C26_Witness ==
    /\ Asked("binance") /\ Asked("coinbase")
    /\ ~feed.binance.ok /\ ~feed.coinbase.ok
    /\ pc = "returned" /\ btc_price = 0 /\ result = Returned(<<>>)


\* C27: in main's loop every cycle reaches the sleep and is followed by another
\* cycle, whether run_scan, the formatting, the sending or the dry-run trade
\* step returns or raises, also when sending the error notification raises;
\* main is never left.
C27_LoopGoesOn ==
    /\ [](pc # "exited")
    /\ (pc = "scan") ~> (pc = "sleep")
    /\ (pc = "sleep") ~> (pc = "scan")
    /\ \A step \in {"run_scan", "format", "send", "trade", "notify"} :
          (step \in failures) ~> (pc = "sleep")

\* a step raised, the error notification raised too, and the cycle is at its sleep
C27_Witness ==
    /\ pc = "sleep"
    /\ "notify" \in failures
    /\ failures \cap {"run_scan", "format", "send", "trade"} # {}


\* the sum of the first n registered P&L values
RegisteredSum(n) ==
    LET partial[j \in 0..n] == IF j = 0 THEN 0 ELSE partial[j - 1] + calls[j]
    IN  partial[n]

\* the sum has reached the loss limit -(account_value * daily_max_loss_pct)
AtLossLimit(total) ==
    10000 * total <= 0 - (feed.cfg.account_value * feed.cfg.daily_max_loss_pct)

\* C28: after any sequence of register_trade_result calls, should_trade answers
\* allowed = false exactly when the sum of the registered P&L is at or below
\* -(account_value * daily_max_loss_pct), also after the limit was reached and
\* a later profit lifted the sum above it; should_trade and
\* compute_position_size leave the risk state unchanged.
C28_GateFollowsSum ==
    /\ [](pc = "should_trade" =>
             /\ result.allowed = ~AtLossLimit(RegisteredSum(Len(calls)))
             /\ feed.state.trades_today = Len(calls))
    /\ [][pc' \in {"should_trade", "sized"} => feed' = feed]_vars

\* trading is allowed again after the limit had been reached
C28_Witness ==
    /\ pc = "should_trade"
    /\ result.allowed
    /\ \E n \in 1..Len(calls) : AtLossLimit(RegisteredSum(n))


\* C29: for a fixed strike the fair probability of BTCPriceTargets.score is
\* non-decreasing in the spot price for an "above" market and non-increasing
\* for a "below" market.
C29_MonotoneInSpot ==
    (TargetsScored /\ result.r = "opp") =>
        \A higher \in ScoreSpots :
            LET other == Score("BTCPriceTargets", markets[si], higher)
            IN  (higher >= btc_price /\ other.r = "opp") =>
                    /\ result.opp.direction = "above" => other.opp.fair.v >= result.opp.fair.v
                    /\ result.opp.direction = "below" => other.opp.fair.v <= result.opp.fair.v


\* a quoted price of exactly 0, as an integer or a float
ZeroPrices == {IntV(0), Num(0)}

\* C30: to_market takes each price from the first alias key present in the
\* payload; a price of exactly 0 under that key is kept as 0.0, neither
\* treated as missing nor replaced by the value of a later alias.
C30_ZeroPriceKept ==
    /\ (pc = "to_market_aliased" /\ result.field # "end_ts") =>
          /\ result.other.r = "ok"
          /\ result.other.market[result.field] = flt_(result.value)
          /\ result.value \in ZeroPrices => result.other.market[result.field] = Num(0)
    /\ pc = "to_market_two_aliases" =>
          /\ result.out.r = "ok"
          /\ result.out.market[result.field] = flt_(result.value)
          /\ result.value \in ZeroPrices => result.out.market[result.field] = Num(0)

====
